---- MODULE Spec2Model ----
(***************************************************************************)
(* Model of the segment aligner and speaker summarizer of                  *)
(* src/diarization.py (class SpeakerDiarizer).                             *)
(*                                                                         *)
(* Python dicts are functions whose DOMAIN is the set of keys present.     *)
(* Timestamps are floats in the source; here a time value is an integer    *)
(* count of half seconds, and every input time is a whole number of        *)
(* seconds (an even count), so that the midpoint (start + end) / 2 and     *)
(* every sum the code forms are exact, as they are in IEEE doubles for     *)
(* such values.  A text is the sequence of its characters.                 *)
(***************************************************************************)
EXTENDS Integers, Sequences, FiniteSets, TLC

\* ------------------------------------------------------------- bounds --
\* Largest input timestamp / duration, in seconds.
MaxTime == 2
\* Longest transcript list handed to merge_with_transcription.
MaxWhisper == 2
\* Longest speaker-segment list handed to merge_with_transcription.
MaxDiar == 2
\* Longest segment list handed directly to get_speaker_summary.
MaxSegments == 2
\* Longest text, in characters.
MaxTextLen == 3
\* Longest float-duration list handed to get_speaker_summary.
MaxFloatSegments == 3
\* Most tracks the pipeline yields for one audio file.
MaxTracks == 2
\* Most diarize calls the one caller of the sequential runs makes.
MaxCalls == 2
\* Most tracks of an audio file in the runs with two callers or with a request.
MaxTurns == 1
\* Longest transcript the recognizer yields in the runs with a request.
MaxTranscript == 1
\* Most reset tokens generated, and most requests to the auth routes, in a
\* run.
MaxTokens == 2
MaxRequests == 4
\* The clock: hours from the start of the run to its end, and the hours
\* between two readings of it.
MaxClock == 48
TickHours == 12

\* ------------------------------------------------------- input domains --
Labels == {"SPEAKER_00", "SPEAKER_01"}
Chars == {"a", " "}
Whitespace == {" "}

\* Input times: whole seconds, counted in half seconds.
Times == {2 * k : k \in 0..MaxTime}
Spans == {se \in Times \X Times : se[1] <= se[2]}

RECURSIVE SeqsUpTo(_, _)
SeqsUpTo(S, n) ==
    IF n = 0 THEN {<<>>}
    ELSE LET shorter == SeqsUpTo(S, n - 1)
         IN  shorter \cup {Append(s, x) : s \in {t \in shorter : Len(t) = n - 1}, x \in S}

Texts == SeqsUpTo(Chars, MaxTextLen)
\* Texts carried by transcript segments handed to the aligner, which never
\* reads them: one one-word and one two-word text.
WhisperTexts == {<<"a">>, <<"a", " ", "a">>}

\* A dict with no keys, and a dict with the optional key k.
NoKeys == [k \in {} |-> 0]
Optional(k, vals) == {NoKeys} \cup {[j \in {k} |-> v] : v \in vals}

\* Transcript segments as the recognizer yields them: start, end, text.
WhisperSegs ==
    {[start |-> se[1], end |-> se[2], text |-> t] : se \in Spans, t \in WhisperTexts}
\* Speaker segments as diarize builds them (src/diarization.py:132-137).
DiarSegs ==
    {[speaker |-> l, start |-> se[1], end |-> se[2], duration |-> se[2] - se[1]] :
        l \in Labels, se \in Spans}
\* Segments handed to get_speaker_summary.  speaker, duration and text are
\* each optional; start and end are present together or not at all.  The
\* times and the text are accumulated apart, so the set holds the segments
\* with any times and a sample text, and the segments with any text and the
\* times of a transcript segment.
TimedSummarySegs ==
    {sp @@ se @@ du @@ tx :
        sp \in Optional("speaker", Labels),
        se \in {NoKeys} \cup {[start |-> x[1], end |-> x[2]] : x \in Spans},
        du \in Optional("duration", Times),
        tx \in Optional("text", WhisperTexts)}
TextSummarySegs ==
    {sp @@ [start |-> 0, end |-> 2 * MaxTime] @@ tx :
        sp \in Optional("speaker", Labels),
        tx \in Optional("text", Texts)}
SummarySegs == TimedSummarySegs \cup TextSummarySegs

\* ------------------------------------------------------------ helpers --
\* dict.get(key, default)
Get(seg, key, default) == IF key \in DOMAIN seg THEN seg[key] ELSE default

Abs(x) == IF x < 0 THEN -x ELSE x
Min(a, b) == IF a <= b THEN a ELSE b

\* ------------------------------------------------- SpeakerDiarizer ------
\* segments.sort(key=lambda x: x["start"]): list.sort is stable, so segments
\* of equal start keep their order.
InsertByStart(seg, sorted) ==
    LET n == Cardinality({j \in DOMAIN sorted : sorted[j]["start"] <= seg["start"]})
    IN  SubSeq(sorted, 1, n) \o <<seg>> \o SubSeq(sorted, n + 1, Len(sorted))

\* Slip: the list is returned in the order the pipeline yields it.
SortByStart_None(segs) == segs

RECURSIVE SortByStart(_)
SortByStart(segs) ==
    IF segs = <<>> THEN <<>>
    ELSE InsertByStart(segs[Len(segs)], SortByStart(SubSeq(segs, 1, Len(segs) - 1)))

\* Slip: the scan keeps going after a match, so the last containing segment
\* wins.
RECURSIVE FirstContaining_Last(_, _, _)
FirstContaining_Last(timestamp, segs, i) ==
    IF i > Len(segs) THEN <<>>
    ELSE LET later == FirstContaining_Last(timestamp, segs, i + 1)
         IN  IF later # <<>> THEN later
             ELSE IF segs[i]["start"] <= timestamp /\ timestamp <= segs[i]["end"]
                  THEN <<segs[i]["speaker"]>>
                  ELSE <<>>

\* Slip: < for <=, so a timestamp on a segment's start or end is outside it.
RECURSIVE FirstContaining_Strict(_, _, _)
FirstContaining_Strict(timestamp, segs, i) ==
    IF i > Len(segs) THEN <<>>
    ELSE IF segs[i]["start"] < timestamp /\ timestamp < segs[i]["end"]
         THEN <<segs[i]["speaker"]>>
         ELSE FirstContaining_Strict(timestamp, segs, i + 1)

\* The first loop of _get_speaker_at_time: the label of the first segment,
\* in list order from index i, with start <= timestamp <= end; <<>> stands for
\* the loop ending without a return.
RECURSIVE FirstContaining(_, _, _)
FirstContaining(timestamp, segs, i) ==
    IF i > Len(segs) THEN <<>>
    ELSE IF segs[i]["start"] <= timestamp /\ timestamp <= segs[i]["end"]
         THEN <<segs[i]["speaker"]>>
         ELSE FirstContaining(timestamp, segs, i + 1)

\* Slip: <= for <, so the last of several nearest segments wins.
ClosestStep_LessEq(timestamp, seg, acc) ==
    LET min_seg_distance ==
            Min(Abs(timestamp - seg["start"]), Abs(timestamp - seg["end"]))
    IN  IF acc.inf \/ min_seg_distance <= acc.min_distance
        THEN [closest_speaker |-> seg["speaker"], min_distance |-> min_seg_distance,
              inf |-> FALSE]
        ELSE acc

\* Slip: min_distance is never updated, so every segment replaces the last.
ClosestStep_NoUpdate(timestamp, seg, acc) ==
    [closest_speaker |-> seg["speaker"], min_distance |-> acc.min_distance, inf |-> TRUE]

\* One pass of the second loop's body.  acc holds closest_speaker and
\* min_distance; inf marks min_distance = float("inf").
ClosestStep(timestamp, seg, acc) ==
    LET dist_to_start == Abs(timestamp - seg["start"])
        dist_to_end == Abs(timestamp - seg["end"])
        min_seg_distance == Min(dist_to_start, dist_to_end)
    IN  IF acc.inf \/ min_seg_distance < acc.min_distance
        THEN [closest_speaker |-> seg["speaker"], min_distance |-> min_seg_distance,
              inf |-> FALSE]
        ELSE acc

RECURSIVE ClosestLoop(_, _, _, _)
ClosestLoop(timestamp, segs, i, acc) ==
    IF i > Len(segs) THEN acc
    ELSE ClosestLoop(timestamp, segs, i + 1, ClosestStep(timestamp, segs[i], acc))

\* Slip: min_distance starts at 0, so no segment is ever closer.
ClosestInit_Zero == [closest_speaker |-> "UNKNOWN", min_distance |-> 0, inf |-> FALSE]

\* closest_speaker = "UNKNOWN"; min_distance = float("inf")
ClosestInit == [closest_speaker |-> "UNKNOWN", min_distance |-> 0, inf |-> TRUE]

\* Slip: the containment scan is left out; the nearest boundary decides alone.
GetSpeakerAtTime_NearestOnly(timestamp, segs) ==
    ClosestLoop(timestamp, segs, 1, ClosestInit).closest_speaker

\* _get_speaker_at_time(timestamp, diarization_segments)
GetSpeakerAtTime(timestamp, segs) ==
    LET hit == FirstContaining(timestamp, segs, 1)
    IN  IF hit # <<>> THEN hit[1]
        ELSE ClosestLoop(timestamp, segs, 1, ClosestInit).closest_speaker

\* whisper_mid of a transcript segment.  start + end is even for every input.
WhisperMid(whisper_seg) ==
    LET whisper_start == Get(whisper_seg, "start", 0)
        whisper_end == Get(whisper_seg, "end", whisper_start)
    IN  (whisper_start + whisper_end) \div 2

\* Slip: the merged segment is built afresh from the times and the label, and
\* loses the other fields.
MergedSeg_NoCopy(whisper_seg, speaker) ==
    [start |-> Get(whisper_seg, "start", 0), end |-> Get(whisper_seg, "end", 0),
     speaker |-> speaker]

\* merged_seg = whisper_seg.copy(); merged_seg["speaker"] = speaker
MergedSeg(whisper_seg, speaker) ==
    [k \in DOMAIN whisper_seg \cup {"speaker"} |->
        IF k = "speaker" THEN speaker ELSE whisper_seg[k]]

\* Slip: the early return for an empty speaker list is left out.
MergeWithTranscription_NoEmptyGuard(whisper, diar) ==
    [i \in 1..Len(whisper) |->
        MergedSeg(whisper[i], GetSpeakerAtTime(WhisperMid(whisper[i]), diar))]

\* merge_with_transcription(whisper_segments, diarization_segments)
MergeWithTranscription(whisper, diar) ==
    IF diar = <<>> THEN whisper
    ELSE [i \in 1..Len(whisper) |->
            MergedSeg(whisper[i], GetSpeakerAtTime(WhisperMid(whisper[i]), diar))]

\* Slip: merged_seg = whisper_seg, without copy(): the label is written into
\* the caller's dict.
MergeObject_InPlace(heap, ref, speaker) ==
    [heap |-> [heap EXCEPT ![ref] = MergedSeg(heap[ref], speaker)], ref |-> ref]

\* The same call on objects.  heap is the sequence of the dicts that exist,
\* a reference is an index into it, and a list is a sequence of references.
\* whisper_seg.copy() makes a new dict, which gets the label and is appended
\* to the new list merged.
MergeObject(heap, ref, speaker) ==
    [heap |-> Append(heap, MergedSeg(heap[ref], speaker)), ref |-> Len(heap) + 1]

RECURSIVE MergeObjectsLoop(_, _, _, _, _)
MergeObjectsLoop(heap, refs, i, diar, merged) ==
    IF i > Len(refs) THEN [heap |-> heap, refs |-> merged]
    ELSE LET speaker == GetSpeakerAtTime(WhisperMid(heap[refs[i]]), diar)
             made == MergeObject(heap, refs[i], speaker)
         IN  MergeObjectsLoop(made.heap, refs, i + 1, diar, Append(merged, made.ref))

\* With no speaker segments the list passed in is itself returned.
MergeObjects(heap, refs, diar) ==
    IF diar = <<>> THEN [heap |-> heap, refs |-> refs]
    ELSE MergeObjectsLoop(heap, refs, 1, diar, <<>>)

\* Slip: text.split(" ") for text.split(): every single space cuts, and empty
\* tokens count.
RECURSIVE SplitCount_SingleSpace(_, _)
SplitCount_SingleSpace(text, i) ==
    IF i > Len(text) THEN 1
    ELSE (IF text[i] = " " THEN 1 ELSE 0) + SplitCount_SingleSpace(text, i + 1)

\* len(text.split()): str.split() with no argument cuts at runs of whitespace
\* and yields no empty token, so the count is the number of places where a
\* run of non-whitespace characters starts.
RECURSIVE SplitCount(_, _)
SplitCount(text, i) ==
    IF i > Len(text) THEN 0
    ELSE (IF text[i] \notin Whitespace /\ (i = 1 \/ text[i - 1] \in Whitespace)
          THEN 1 ELSE 0) + SplitCount(text, i + 1)

\* Slip: seg.get("duration") or (end - start): a duration of 0 is taken for a
\* missing one.
SegTime_Or(seg) ==
    IF "duration" \in DOMAIN seg /\ seg["duration"] # 0
    THEN seg["duration"]
    ELSE Get(seg, "end", 0) - Get(seg, "start", 0)

\* seg.get("duration", seg.get("end", 0) - seg.get("start", 0))
SegTime(seg) == Get(seg, "duration", Get(seg, "end", 0) - Get(seg, "start", 0))

\* The word-count step: text = seg.get("text", ""); if text: += len(text.split())
SegWords(seg) ==
    LET text == Get(seg, "text", <<>>)
    IN  IF text # <<>> THEN SplitCount(text, 1) ELSE 0

\* Slip: a segment without a label is put with the first speaker.
SegSpeaker_FirstLabel(seg) == Get(seg, "speaker", "SPEAKER_00")

\* seg.get("speaker", "UNKNOWN")
SegSpeaker(seg) == Get(seg, "speaker", "UNKNOWN")

NewStats == [total_time |-> 0, segment_count |-> 0, word_count |-> 0]

\* Slip: segment_count is incremented inside "if text:".
SummaryStep_CountInText(speaker_stats, seg) ==
    LET speaker == SegSpeaker(seg)
        old == IF speaker \in DOMAIN speaker_stats THEN speaker_stats[speaker] ELSE NewStats
        new == [total_time |-> old.total_time + SegTime(seg),
                segment_count |->
                    old.segment_count + (IF Get(seg, "text", <<>>) # <<>> THEN 1 ELSE 0),
                word_count |-> old.word_count + SegWords(seg)]
    IN  [k \in DOMAIN speaker_stats \cup {speaker} |->
            IF k = speaker THEN new ELSE speaker_stats[k]]

\* The body of the loop of get_speaker_summary.
SummaryStep(speaker_stats, seg) ==
    LET speaker == SegSpeaker(seg)
        old == IF speaker \in DOMAIN speaker_stats THEN speaker_stats[speaker] ELSE NewStats
        new == [total_time |-> old.total_time + SegTime(seg),
                segment_count |-> old.segment_count + 1,
                word_count |-> old.word_count + SegWords(seg)]
    IN  [k \in DOMAIN speaker_stats \cup {speaker} |->
            IF k = speaker THEN new ELSE speaker_stats[k]]

RECURSIVE SummaryLoop(_, _, _)
SummaryLoop(segs, i, speaker_stats) ==
    IF i > Len(segs) THEN speaker_stats
    ELSE SummaryLoop(segs, i + 1, SummaryStep(speaker_stats, segs[i]))

\* get_speaker_summary(segments)
GetSpeakerSummary(segs) == SummaryLoop(segs, 1, NoKeys)

\* ------------------------------------------------- float durations --
\* Durations as the pipeline yields them are Python floats (IEEE 754
\* binary64).  A non-negative finite float is modelled exactly, as the set of
\* the exponents of the one bits of its binary expansion: {0} is 1.0, {-1} is
\* 0.5, {} is 0.0.
MantDig == 53

FZero == {}
FOne == {0}
\* 0.1, 0.2 and 0.3 as binary64 stores them.
FTenth == {-(4 * k) : k \in 1..13} \cup {-(4 * k + 1) : k \in 1..13} \cup {-55}
FFifth == {i + 1 : i \in FTenth}
FThreeTenths == {-2} \cup {-(4 * k + 1) : k \in 1..13} \cup {-(4 * k + 2) : k \in 1..13}
FloatDurations == {FTenth, FFifth, FThreeTenths, FOne}

\* The exact sum of two bit sets: add without carry, then add the carries.
RECURSIVE BitAdd(_, _)
BitAdd(A, B) ==
    IF B = {} THEN A
    ELSE BitAdd((A \ B) \cup (B \ A), {i + 1 : i \in A \cap B})

TopBit(S) == CHOOSE i \in S : \A j \in S : j <= i

\* Rounding to MantDig significant bits, to nearest, ties to even.
RoundToFloat(S) ==
    IF S = {} THEN {}
    ELSE LET cut == TopBit(S) - MantDig + 1
             kept == {i \in S : i >= cut}
             half == (cut - 1) \in S
             sticky == \E i \in S : i < cut - 1
         IN  IF half /\ (sticky \/ cut \in S) THEN BitAdd(kept, {cut}) ELSE kept

\* a + b on floats.
FloatAdd(a, b) == RoundToFloat(BitAdd(a, b))

\* Segments for get_speaker_summary that carry a float duration.
FloatSegs ==
    {[duration |-> d] @@ s @@ t :
        d \in FloatDurations,
        s \in Optional("speaker", {"SPEAKER_00"}),
        t \in Optional("text", {<<"a", " ", "a">>})}

\* Slip: word_count is assigned, not added to.
SummaryStepFloat_AssignWords(speaker_stats, seg) ==
    LET speaker == SegSpeaker(seg)
        old == IF speaker \in DOMAIN speaker_stats THEN speaker_stats[speaker]
               ELSE [total_time |-> FZero, segment_count |-> 0, word_count |-> 0]
        new == [total_time |-> FloatAdd(old.total_time, Get(seg, "duration", FZero)),
                segment_count |-> old.segment_count + 1,
                word_count |-> SegWords(seg)]
    IN  [k \in DOMAIN speaker_stats \cup {speaker} |->
            IF k = speaker THEN new ELSE speaker_stats[k]]

\* The body of the loop of get_speaker_summary on a segment that has a float
\* duration: total_time += duration is a float addition.
SummaryStepFloat(speaker_stats, seg) ==
    LET speaker == SegSpeaker(seg)
        old == IF speaker \in DOMAIN speaker_stats THEN speaker_stats[speaker]
               ELSE [total_time |-> FZero, segment_count |-> 0, word_count |-> 0]
        new == [total_time |-> FloatAdd(old.total_time, Get(seg, "duration", FZero)),
                segment_count |-> old.segment_count + 1,
                word_count |-> old.word_count + SegWords(seg)]
    IN  [k \in DOMAIN speaker_stats \cup {speaker} |->
            IF k = speaker THEN new ELSE speaker_stats[k]]

RECURSIVE SummaryLoopFloat(_, _, _)
SummaryLoopFloat(segs, i, speaker_stats) ==
    IF i > Len(segs) THEN speaker_stats
    ELSE SummaryLoopFloat(segs, i + 1, SummaryStepFloat(speaker_stats, segs[i]))

\* get_speaker_summary(segments) on segments with float durations.
GetSpeakerSummaryFloat(segs) == SummaryLoopFloat(segs, 1, NoKeys)

\* ---------------------------------------------------------------- state --
VARIABLES
    pc,                   \* which call comes next
    whisper_segments,     \* argument of merge_with_transcription
    diarization_segments, \* argument of merge_with_transcription
    merged_segments,      \* its result
    segments,             \* argument of get_speaker_summary
    speaker_stats,        \* its result
    heap,                 \* the dict objects: the transcript's, then those merge makes
    merged_refs,          \* the list merge returns, as references into heap
    _diarizer,            \* the module global: None or a SpeakerDiarizer
    self_pipeline,        \* self.pipeline of every SpeakerDiarizer created
    loads,                \* how many times from_pretrained has returned a pipeline
    audio,                \* the tracks the pipeline yields for each caller's audio file
    tpc,                  \* where each caller of diarize_audio stands
    diarizer,             \* each caller's local diarizer
    pipeline,             \* each caller's local pipeline in diarize
    observed,             \* what each caller's last "is None" tests saw
    calls_left,           \* how many calls each caller has yet to make
    result,               \* what each caller's last diarize call returned
    failure,              \* what failed in each caller's last call
    DIARIZATION_AVAILABLE, \* the module flag of app.py, set at import
    uploads,              \* the upload folder: file name -> the request whose upload it holds
    history,              \* the rows of TranscriptionHistory
    hpc,                  \* where each request stands in transcribe
    request,              \* each request: its upload, and what the recognizer hears in it
    frame,                \* the locals of transcribe, per request
    stage_failure,        \* what went wrong in the diarization stage, per request
    fault,                \* the step whose exception reached the outer handler
    response,             \* the response sent, per request
    users,                \* the rows of the users table, by email
    now,                  \* datetime.utcnow(), in hours
    tokens_issued,        \* how many reset tokens secrets.token_urlsafe has made
    used,                 \* the tokens with which a password was reset
    last                  \* the last request to an auth route and its outcome

alignVars == <<pc, whisper_segments, diarization_segments, merged_segments, segments,
               speaker_stats, heap, merged_refs>>
diarVars == <<_diarizer, self_pipeline, loads, audio, tpc, diarizer, pipeline, observed,
              calls_left, result, failure>>
httpVars == <<DIARIZATION_AVAILABLE, uploads, history, hpc, request, frame, stage_failure,
              fault, response>>
authVars == <<users, now, tokens_issued, used, last>>
vars == <<alignVars, diarVars, httpVars, authVars>>

\* None, among object references (which are numbered from 1).
None == 0

\* No alignment or summary call is under way.
AlignIdle ==
    /\ pc = "idle"
    /\ whisper_segments = <<>>
    /\ diarization_segments = <<>>
    /\ merged_segments = <<>>
    /\ segments = <<>>
    /\ speaker_stats = NoKeys
    /\ heap = <<>>
    /\ merged_refs = <<>>

\* The module as imported (_diarizer = None), with the callers in Callers
\* about to make n calls each, on audio files for which the pipeline yields
\* one of Outputs.
DiarInit(Callers, n, Outputs) ==
    /\ _diarizer = None
    /\ audio \in [Callers -> Outputs]
    /\ self_pipeline = <<>>
    /\ loads = 0
    /\ tpc = [t \in Callers |-> "idle"]
    /\ diarizer = [t \in Callers |-> None]
    /\ pipeline = [t \in Callers |-> None]
    /\ observed = [t \in Callers |-> [diarizer |-> "", pipeline |-> ""]]
    /\ calls_left = [t \in Callers |-> n]
    /\ result = [t \in Callers |-> <<>>]
    /\ failure = [t \in Callers |-> ""]

\* Nobody calls the diarizer.
DiarIdle == DiarInit({}, 0, {<<>>})

\* The locals of transcribe before line 231.
NewFrame ==
    [temp_path |-> FALSE, recognized |-> FALSE, text |-> <<>>, segments |-> <<>>,
     speaker_segments |-> <<>>, speaker_summary |-> NoKeys, num_speakers |-> 0]

\* The server with the requests in Requests arriving, each an element of
\* Arrivals; the upload folder and the history are empty.
HttpInit(Requests, Arrivals) ==
    /\ DIARIZATION_AVAILABLE \in BOOLEAN
    /\ uploads = NoKeys
    /\ history = <<>>
    /\ hpc = [r \in Requests |-> "start"]
    /\ request \in [Requests -> Arrivals]
    /\ frame = [r \in Requests |-> NewFrame]
    /\ stage_failure = [r \in Requests |-> ""]
    /\ fault = [r \in Requests |-> ""]
    /\ response = [r \in Requests |-> [status |-> 0]]

\* No request.
HttpIdle == HttpInit({}, {}) /\ DIARIZATION_AVAILABLE

\* The password policy of validate_password and the life of a reset token.
MinPasswordLen == 8
TokenHours == 24

\* werkzeug's generate_password_hash: a salted hash, which no two calls give
\* alike; check_password_hash accepts the password it was made from.
PasswordHash(password, salt) == [of |-> password, salt |-> salt]

\* The users table with the accounts in Emails, each with a password set at
\* registration and no reset token.
AuthInit(Emails, Passwords) ==
    /\ users \in [Emails -> {[password_hash |-> PasswordHash(p, 0),
                              reset_token |-> None,
                              reset_token_expiry |-> None] : p \in Passwords}]
    /\ now = 0
    /\ tokens_issued = 0
    /\ used = {}
    /\ last = [seq |-> 0, route |-> "", token |-> None, outcome |-> ""]

\* No account, no auth request.
AuthIdle == AuthInit({}, {})

\* A caller about to align a transcript with a speaker list, in whatever
\* order it holds the speaker segments.
Init ==
    /\ pc = "merge"
    /\ whisper_segments \in SeqsUpTo(WhisperSegs, MaxWhisper)
    /\ diarization_segments \in SeqsUpTo(DiarSegs, MaxDiar)
    /\ merged_segments = <<>>
    /\ segments = <<>>
    /\ speaker_stats = NoKeys
    /\ heap = whisper_segments
    /\ merged_refs = <<>>
    /\ DiarIdle
    /\ HttpIdle
    /\ AuthIdle

\* A caller about to summarize a segment list.
InitSummary ==
    /\ pc = "summary"
    /\ whisper_segments = <<>>
    /\ diarization_segments = <<>>
    /\ merged_segments = <<>>
    /\ segments \in SeqsUpTo(SummarySegs, MaxSegments)
    /\ speaker_stats = NoKeys
    /\ heap = <<>>
    /\ merged_refs = <<>>
    /\ DiarIdle
    /\ HttpIdle
    /\ AuthIdle

\* The caller's transcript list: its dicts are the first objects of heap.
InputRefs == [i \in DOMAIN whisper_segments |-> i]

\* merge_with_transcription(whisper_segments, diarization_segments), a public
\* method, called with the caller's two lists: whisper_segments holds the
\* transcript dicts as they are at the call, merged_segments the returned
\* list by value, heap and merged_refs the same by object.
Merge ==
    /\ pc = "merge"
    /\ merged_segments' = MergeWithTranscription(whisper_segments, diarization_segments)
    /\ LET made == MergeObjects(heap, InputRefs, diarization_segments)
       IN  heap' = made.heap /\ merged_refs' = made.refs
    /\ pc' = "merged"
    /\ UNCHANGED <<whisper_segments, diarization_segments, segments, speaker_stats>>
    /\ UNCHANGED <<diarVars, httpVars, authVars>>

\* get_speaker_summary on the merged segments, as transcribe calls it
\* (src/app.py:303-308: only when the speaker list is non-empty).
SummarizeMerged ==
    /\ pc = "merged"
    /\ diarization_segments # <<>>
    /\ segments' = merged_segments
    /\ speaker_stats' = GetSpeakerSummary(merged_segments)
    /\ pc' = "summarized"
    /\ UNCHANGED <<whisper_segments, diarization_segments, merged_segments, heap, merged_refs>>
    /\ UNCHANGED <<diarVars, httpVars, authVars>>

\* get_speaker_summary called on a segment list of the caller's.
Summarize ==
    /\ pc = "summary"
    /\ speaker_stats' = GetSpeakerSummary(segments)
    /\ pc' = "summarized"
    /\ UNCHANGED <<whisper_segments, diarization_segments, merged_segments, segments, heap,
                   merged_refs>>
    /\ UNCHANGED <<diarVars, httpVars, authVars>>

Next == Merge \/ SummarizeMerged

Spec == Init /\ [][Next]_vars

NextSummary == Summarize

SpecSummary == InitSummary /\ [][NextSummary]_vars

\* A caller about to summarize a list of segments with float durations.
InitOrder ==
    /\ pc = "summary"
    /\ whisper_segments = <<>>
    /\ diarization_segments = <<>>
    /\ merged_segments = <<>>
    /\ segments \in SeqsUpTo(FloatSegs, MaxFloatSegments)
    /\ speaker_stats = NoKeys
    /\ heap = <<>>
    /\ merged_refs = <<>>
    /\ DiarIdle
    /\ HttpIdle
    /\ AuthIdle

\* get_speaker_summary called on it.
SummarizeFloat ==
    /\ pc = "summary"
    /\ speaker_stats' = GetSpeakerSummaryFloat(segments)
    /\ pc' = "summarized"
    /\ UNCHANGED <<whisper_segments, diarization_segments, merged_segments, segments, heap,
                   merged_refs>>
    /\ UNCHANGED <<diarVars, httpVars, authVars>>

NextOrder == SummarizeFloat

SpecOrder == InitOrder /\ [][NextOrder]_vars

\* ------------------------------------------- get_diarizer and diarize --
\* What the pipeline yields for an audio file: tracks (turn, speaker) in an
\* order of its own.
Tracks == {[speaker |-> l, start |-> se[1], end |-> se[2]] : l \in Labels, se \in Spans}
PipelineOutputs == SeqsUpTo(Tracks, MaxTracks)

\* The loop over itertracks: one dict per track.
ConvertTracks(tracks) ==
    [i \in DOMAIN tracks |->
        [speaker |-> tracks[i]["speaker"], start |-> tracks[i]["start"],
         end |-> tracks[i]["end"], duration |-> tracks[i]["end"] - tracks[i]["start"]]]

\* What Pipeline.from_pretrained can do: return a pipeline, return one after
\* the TypeError fallback, return None, or raise.
LoadOutcomes == {"ok", "fallback_ok", "returns_none", "raise"}

Set(f, t, v) == [f EXCEPT ![t] = v]

\* diarize returns segs to caller t; what names the failed step, "" if none.
Return(t, segs, what) ==
    /\ result' = Set(result, t, segs)
    /\ failure' = Set(failure, t, what)
    /\ tpc' = Set(tpc, t, "returned")

\* Slip: every call builds a new SpeakerDiarizer.
GetDiarizerTest_Always(t) ==
    /\ tpc[t] = "idle"
    /\ calls_left[t] > 0
    /\ calls_left' = Set(calls_left, t, calls_left[t] - 1)
    /\ observed' = Set(observed, t,
           [diarizer |-> IF _diarizer = None THEN "unset" ELSE "set", pipeline |-> ""])
    /\ tpc' = Set(tpc, t, "construct")
    /\ UNCHANGED <<alignVars, httpVars, authVars, audio, _diarizer, self_pipeline, loads, diarizer, pipeline, result, failure>>

\* get_diarizer, line 264: if _diarizer is None.
GetDiarizerTest(t) ==
    /\ tpc[t] = "idle"
    /\ calls_left[t] > 0
    /\ calls_left' = Set(calls_left, t, calls_left[t] - 1)
    /\ observed' = Set(observed, t,
           [diarizer |-> IF _diarizer = None THEN "unset" ELSE "set", pipeline |-> ""])
    /\ tpc' = Set(tpc, t, IF _diarizer = None THEN "construct" ELSE "get_return")
    /\ UNCHANGED <<alignVars, httpVars, authVars, audio, _diarizer, self_pipeline, loads, diarizer, pipeline, result, failure>>

\* get_diarizer, line 265: _diarizer = SpeakerDiarizer(), whose pipeline is
\* None.
Construct(t) ==
    /\ tpc[t] = "construct"
    /\ self_pipeline' = Append(self_pipeline, None)
    /\ _diarizer' = Len(self_pipeline) + 1
    /\ tpc' = Set(tpc, t, "get_return")
    /\ UNCHANGED <<alignVars, httpVars, authVars, audio, loads, diarizer, pipeline, observed, calls_left, result, failure>>

\* get_diarizer, line 266: return _diarizer (the global as it is now); the
\* caller then enters diarize.
GetDiarizerReturn(t) ==
    /\ tpc[t] = "get_return"
    /\ diarizer' = Set(diarizer, t, _diarizer)
    /\ tpc' = Set(tpc, t, "load_model")
    /\ UNCHANGED <<alignVars, httpVars, authVars, audio, _diarizer, self_pipeline, loads, pipeline, observed, calls_left,
                   result, failure>>

\* Slip: no early return, the model is loaded on every call.
LoadModelTest_Always(t) ==
    /\ tpc[t] = "load_model"
    /\ observed' = Set(observed, t,
           [observed[t] EXCEPT !.pipeline =
               IF self_pipeline[diarizer[t]] = None THEN "unset" ELSE "set"])
    /\ tpc' = Set(tpc, t, "from_pretrained")
    /\ UNCHANGED <<alignVars, httpVars, authVars, audio, _diarizer, self_pipeline, loads, diarizer, pipeline, calls_left,
                   result, failure>>

\* load_model, lines 37-38: if self.pipeline is not None: return it.
LoadModelTest(t) ==
    /\ tpc[t] = "load_model"
    /\ observed' = Set(observed, t,
           [observed[t] EXCEPT !.pipeline =
               IF self_pipeline[diarizer[t]] = None THEN "unset" ELSE "set"])
    /\ IF self_pipeline[diarizer[t]] # None
       THEN /\ pipeline' = Set(pipeline, t, self_pipeline[diarizer[t]])
            /\ tpc' = Set(tpc, t, "run")
       ELSE /\ tpc' = Set(tpc, t, "from_pretrained")
            /\ UNCHANGED pipeline
    /\ UNCHANGED <<alignVars, httpVars, authVars, audio, _diarizer, self_pipeline, loads, diarizer, calls_left, result, failure>>

\* load_model, lines 47-75: self.pipeline = Pipeline.from_pretrained(...).
\* A pipeline returned is a new object; an exception makes load_model return
\* None and diarize return [] (lines 108-112).
FromPretrained(t) ==
    /\ tpc[t] = "from_pretrained"
    /\ \E outcome \in LoadOutcomes :
        CASE outcome \in {"ok", "fallback_ok"} ->
                /\ loads' = loads + 1
                /\ self_pipeline' = Set(self_pipeline, diarizer[t], loads + 1)
                /\ tpc' = Set(tpc, t, "to_device")
                /\ UNCHANGED <<result, failure>>
          [] outcome = "returns_none" ->
                /\ self_pipeline' = Set(self_pipeline, diarizer[t], None)
                /\ tpc' = Set(tpc, t, "to_device")
                /\ UNCHANGED <<loads, result, failure>>
          [] outcome = "raise" ->
                /\ Return(t, <<>>, "from_pretrained")
                /\ UNCHANGED <<loads, self_pipeline>>
    /\ UNCHANGED <<alignVars, httpVars, authVars, audio, _diarizer, diarizer, pipeline, observed, calls_left>>

\* load_model, lines 78-86: self.pipeline.to(device), then return
\* self.pipeline.  to() can raise, and does when self.pipeline is None; then
\* load_model returns None and diarize returns [].
ToDevice(t) ==
    /\ tpc[t] = "to_device"
    /\ \E raises \in BOOLEAN :
        IF raises \/ self_pipeline[diarizer[t]] = None
        THEN /\ Return(t, <<>>, "to")
             /\ UNCHANGED pipeline
        ELSE /\ pipeline' = Set(pipeline, t, self_pipeline[diarizer[t]])
             /\ tpc' = Set(tpc, t, "run")
             /\ UNCHANGED <<result, failure>>
    /\ UNCHANGED <<alignVars, httpVars, authVars, audio, _diarizer, self_pipeline, loads, diarizer, observed, calls_left>>

\* Slip: no except clause, a failure of the pipeline reaches the caller.
RunPipeline_Propagate(t) ==
    /\ tpc[t] = "run"
    /\ \/ Return(t, SortByStart(ConvertTracks(audio[t])), "")
       \/ /\ tpc' = Set(tpc, t, "raised")
          /\ failure' = Set(failure, t, "pipeline")
          /\ UNCHANGED result
    /\ UNCHANGED <<alignVars, httpVars, authVars, audio, _diarizer, self_pipeline, loads, diarizer, pipeline, observed,
                   calls_left>>

\* diarize, lines 114-152: run the pipeline, convert the tracks, sort by
\* start, return; any exception on the way makes diarize return [].
RunPipeline(t) ==
    /\ tpc[t] = "run"
    /\ \/ Return(t, SortByStart(ConvertTracks(audio[t])), "")
       \/ \E what \in {"pipeline", "itertracks"} : Return(t, <<>>, what)
    /\ UNCHANGED <<alignVars, httpVars, authVars, audio, _diarizer, self_pipeline, loads, diarizer, pipeline, observed,
                   calls_left>>

\* The caller has its list and may call again.
Resume(t) ==
    /\ tpc[t] = "returned"
    /\ tpc' = Set(tpc, t, "idle")
    /\ UNCHANGED <<alignVars, httpVars, authVars, audio, _diarizer, self_pipeline, loads, diarizer, pipeline, observed,
                   calls_left, result, failure>>

NextDiarize ==
    \/ \E t \in DOMAIN tpc : GetDiarizerTest(t)
    \/ \E t \in DOMAIN tpc : Construct(t)
    \/ \E t \in DOMAIN tpc : GetDiarizerReturn(t)
    \/ \E t \in DOMAIN tpc : LoadModelTest(t)
    \/ \E t \in DOMAIN tpc : FromPretrained(t)
    \/ \E t \in DOMAIN tpc : ToDevice(t)
    \/ \E t \in DOMAIN tpc : RunPipeline(t)
    \/ \E t \in DOMAIN tpc : Resume(t)

\* One caller, one call after the other.
InitSequential ==
    AlignIdle /\ DiarInit({1}, MaxCalls, PipelineOutputs) /\ HttpIdle /\ AuthIdle
SpecSequential == InitSequential /\ [][NextDiarize]_vars

\* Two callers (two request threads), each making its first call, on audio
\* files of one turn at most.
InitConcurrent ==
    AlignIdle /\ DiarInit({1, 2}, 1, SeqsUpTo(Tracks, MaxTurns)) /\ HttpIdle /\ AuthIdle
SpecConcurrent == InitConcurrent /\ [][NextDiarize]_vars

\* --------------------------------------------------------- transcribe --
\* What the recognizer yields for an audio file: a text, which may begin
\* with a space, and segments.
Speech ==
    {[text |-> tx, segments |-> sg] :
        tx \in {<<>>, <<" ", "a">>}, sg \in SeqsUpTo(WhisperSegs, MaxTranscript)}
\* What a request can bring: no file, an empty or a disallowed file name, a
\* file over the size limit, or a file to transcribe.
UploadKinds == {"missing", "empty_name", "bad_type", "too_large", "ok"}
Filenames == {"a.wav"}
Arrivals ==
    {[upload |-> u, filename |-> n, speech |-> sp] :
        u \in UploadKinds, n \in Filenames, sp \in Speech}

\* str.strip(): the text without its leading and trailing whitespace.
RECURSIVE Strip(_)
Strip(text) ==
    IF text = <<>> THEN <<>>
    ELSE IF Head(text) \in Whitespace THEN Strip(Tail(text))
    ELSE IF text[Len(text)] \in Whitespace THEN Strip(SubSeq(text, 1, Len(text) - 1))
    ELSE text

\* len(set(s["speaker"] for s in diarization_result))
NumSpeakers(diarization_result) ==
    Cardinality({diarization_result[i]["speaker"] : i \in DOMAIN diarization_result})

Without(f, k) == [x \in DOMAIN f \ {k} |-> f[x]]

\* The file of request r is in the upload folder.
Exists(r) == request[r].filename \in DOMAIN uploads

\* A response is sent to request r and the handler ends.
Respond(r, resp) ==
    /\ response' = Set(response, r, resp)
    /\ hpc' = Set(hpc, r, "done")

\* The outer handler, lines 360-371: the temp file is removed if there is
\* one, and the response is an error 500.
Fail(r, what) ==
    /\ fault' = Set(fault, r, what)
    /\ uploads' = IF frame[r].temp_path /\ Exists(r)
                  THEN Without(uploads, request[r].filename) ELSE uploads
    /\ Respond(r, [status |-> 500])

\* Lines 213-233: the checks of the request, then file.save(temp_path).
Receive(r) ==
    /\ hpc[r] = "start"
    /\ IF request[r].upload \in {"missing", "empty_name", "bad_type"}
       THEN /\ Respond(r, [status |-> 400])
            /\ UNCHANGED <<uploads, frame>>
       ELSE /\ uploads' = [n \in DOMAIN uploads \cup {request[r].filename} |->
                              IF n = request[r].filename THEN r ELSE uploads[n]]
            /\ frame' = Set(frame, r, [frame[r] EXCEPT !.temp_path = TRUE])
            /\ hpc' = Set(hpc, r, "check_size")
            /\ UNCHANGED response
    /\ UNCHANGED <<alignVars, diarVars, authVars, DIARIZATION_AVAILABLE, history, request,
                   stage_failure, fault>>

\* Lines 235-243: the size of the file at temp_path; a file that is too
\* large is removed and refused.
CheckSize(r) ==
    /\ hpc[r] = "check_size"
    /\ IF ~Exists(r) THEN Fail(r, "getsize")
       ELSE IF request[uploads[request[r].filename]].upload = "too_large"
       THEN /\ uploads' = Without(uploads, request[r].filename)
            /\ Respond(r, [status |-> 400])
            /\ UNCHANGED fault
       ELSE /\ hpc' = Set(hpc, r, "recognize")
            /\ UNCHANGED <<uploads, response, fault>>
    /\ UNCHANGED <<alignVars, diarVars, authVars, DIARIZATION_AVAILABLE, history, request, frame,
                   stage_failure>>

\* Lines 249-278: load_model and model.transcribe(temp_path), which raise
\* when the model or the file cannot be read; the result is what the
\* recognizer hears in the file now at temp_path.
Recognize(r) ==
    /\ hpc[r] = "recognize"
    /\ \E raises \in BOOLEAN :
        IF raises \/ ~Exists(r) THEN Fail(r, "transcribe") /\ UNCHANGED frame
        ELSE LET heard == request[uploads[request[r].filename]].speech
             IN  /\ frame' = Set(frame, r,
                        [frame[r] EXCEPT !.recognized = TRUE,
                                         !.text = heard.text,
                                         !.segments = heard.segments])
                 /\ hpc' = Set(hpc, r, "diarization")
                 /\ UNCHANGED <<uploads, response, fault>>
    /\ UNCHANGED <<alignVars, diarVars, authVars, DIARIZATION_AVAILABLE, history, request,
                   stage_failure>>

\* Lines 280-301: the stage is skipped when the flag is off; get_diarizer can
\* raise in the constructor; otherwise the request enters get_diarizer and
\* diarize (the actions above, with the request as the caller).
StartDiarization(r) ==
    /\ hpc[r] = "diarization"
    /\ IF ~DIARIZATION_AVAILABLE
       THEN /\ hpc' = Set(hpc, r, "cleanup")
            /\ UNCHANGED <<calls_left, stage_failure>>
       ELSE \E raises \in BOOLEAN :
            IF raises
            THEN /\ stage_failure' = Set(stage_failure, r, "get_diarizer")
                 /\ hpc' = Set(hpc, r, "cleanup")
                 /\ UNCHANGED calls_left
            ELSE /\ calls_left' = Set(calls_left, r, 1)
                 /\ hpc' = Set(hpc, r, "diarizing")
                 /\ UNCHANGED stage_failure
    /\ UNCHANGED <<alignVars, authVars, _diarizer, self_pipeline, loads, audio, tpc, diarizer,
                   pipeline, observed, result, failure, DIARIZATION_AVAILABLE, uploads,
                   history, request, frame, fault, response>>

\* Slip: no try around the stage, its exceptions reach the outer handler.
AfterDiarize_NoTry(r) ==
    /\ hpc[r] = "diarizing"
    /\ tpc[r] = "returned"
    /\ tpc' = Set(tpc, r, "idle")
    /\ LET diarization_result == result[r]
           merged == MergeWithTranscription(frame[r].segments, diarization_result)
       IN  IF diarization_result = <<>>
           THEN /\ stage_failure' = Set(stage_failure, r, "empty")
                /\ hpc' = Set(hpc, r, "cleanup")
                /\ UNCHANGED <<frame, uploads, fault, response>>
           ELSE \/ /\ frame' = Set(frame, r,
                          [frame[r] EXCEPT
                              !.segments = merged,
                              !.speaker_summary = GetSpeakerSummary(merged),
                              !.num_speakers = NumSpeakers(diarization_result),
                              !.speaker_segments = diarization_result])
                   /\ hpc' = Set(hpc, r, "cleanup")
                   /\ UNCHANGED <<stage_failure, uploads, fault, response>>
                \/ /\ stage_failure' = Set(stage_failure, r, "merge_with_transcription")
                   /\ Fail(r, "diarization")
                   /\ UNCHANGED frame
    /\ UNCHANGED <<alignVars, authVars, _diarizer, self_pipeline, loads, audio, diarizer, pipeline,
                   observed, calls_left, result, failure, DIARIZATION_AVAILABLE, history,
                   request>>

\* Lines 303-317, once diarize has returned: an empty list is skipped; merge
\* and summary may raise, which the except clause of the stage swallows,
\* leaving the locals as they are at that point.
AfterDiarize(r) ==
    /\ hpc[r] = "diarizing"
    /\ tpc[r] = "returned"
    /\ tpc' = Set(tpc, r, "idle")
    /\ LET diarization_result == result[r]
           merged == MergeWithTranscription(frame[r].segments, diarization_result)
       IN  IF diarization_result = <<>>
           THEN /\ stage_failure' = Set(stage_failure, r, "empty")
                /\ UNCHANGED frame
           ELSE \/ /\ frame' = Set(frame, r,
                          [frame[r] EXCEPT
                              !.segments = merged,
                              !.speaker_summary = GetSpeakerSummary(merged),
                              !.num_speakers = NumSpeakers(diarization_result),
                              !.speaker_segments = diarization_result])
                   /\ UNCHANGED stage_failure
                \/ /\ stage_failure' = Set(stage_failure, r, "merge_with_transcription")
                   /\ UNCHANGED frame
                \/ /\ stage_failure' = Set(stage_failure, r, "get_speaker_summary")
                   /\ frame' = Set(frame, r, [frame[r] EXCEPT !.segments = merged])
    /\ hpc' = Set(hpc, r, "cleanup")
    /\ UNCHANGED <<alignVars, authVars, _diarizer, self_pipeline, loads, audio, diarizer, pipeline,
                   observed, calls_left, result, failure, DIARIZATION_AVAILABLE, uploads,
                   history, request, fault, response>>

\* Lines 319-323: text = result["text"].strip(), then os.remove(temp_path),
\* which raises when the file is not there.
Cleanup(r) ==
    /\ hpc[r] = "cleanup"
    /\ IF ~Exists(r) THEN Fail(r, "remove") /\ UNCHANGED frame
       ELSE /\ frame' = Set(frame, r, [frame[r] EXCEPT !.text = Strip(frame[r].text)])
            /\ uploads' = Without(uploads, request[r].filename)
            /\ hpc' = Set(hpc, r, "commit")
            /\ UNCHANGED <<response, fault>>
    /\ UNCHANGED <<alignVars, diarVars, authVars, DIARIZATION_AVAILABLE, history, request,
                   stage_failure>>

\* Lines 325-358: the history row is added and committed, which can raise;
\* then the success response.  JSON null is the dict without keys here.
Commit(r) ==
    /\ hpc[r] = "commit"
    /\ \E raises \in BOOLEAN :
        IF raises THEN Fail(r, "commit") /\ UNCHANGED history
        ELSE /\ history' = Append(history,
                    [filename |-> request[r].filename,
                     transcription_text |-> frame[r].text,
                     speaker_segments |-> frame[r].speaker_segments,
                     speaker_summary |-> frame[r].speaker_summary,
                     num_speakers |-> frame[r].num_speakers])
             /\ Respond(r, [status |-> 200,
                            text |-> frame[r].text,
                            segments |-> frame[r].segments,
                            history_id |-> Len(history) + 1,
                            speakers |->
                                IF frame[r].speaker_segments # <<>>
                                THEN [count |-> frame[r].num_speakers,
                                      segments |-> frame[r].speaker_segments,
                                      summary |-> frame[r].speaker_summary]
                                ELSE NoKeys])
             /\ UNCHANGED <<uploads, fault>>
    /\ UNCHANGED <<alignVars, diarVars, authVars, DIARIZATION_AVAILABLE, request, frame,
                   stage_failure>>

NextTranscribe ==
    \/ \E r \in DOMAIN hpc : Receive(r)
    \/ \E r \in DOMAIN hpc : CheckSize(r)
    \/ \E r \in DOMAIN hpc : Recognize(r)
    \/ \E r \in DOMAIN hpc : StartDiarization(r)
    \/ \E t \in DOMAIN tpc : GetDiarizerTest(t)
    \/ \E t \in DOMAIN tpc : Construct(t)
    \/ \E t \in DOMAIN tpc : GetDiarizerReturn(t)
    \/ \E t \in DOMAIN tpc : LoadModelTest(t)
    \/ \E t \in DOMAIN tpc : FromPretrained(t)
    \/ \E t \in DOMAIN tpc : ToDevice(t)
    \/ \E t \in DOMAIN tpc : RunPipeline(t)
    \/ \E r \in DOMAIN hpc : AfterDiarize(r)
    \/ \E r \in DOMAIN hpc : Cleanup(r)
    \/ \E r \in DOMAIN hpc : Commit(r)

\* One request; the diarizer is called by the request when it gets there.
InitTranscribe ==
    /\ AlignIdle
    /\ DiarInit({1}, 0, SeqsUpTo(Tracks, MaxTurns))
    /\ HttpInit({1}, Arrivals)
    /\ AuthIdle
SpecTranscribe == InitTranscribe /\ [][NextTranscribe]_vars

\* Two requests served by two threads of the server (app.run, line 435), with
\* ENABLE_DIARIZATION off (lines 46-48), so that the requests meet in the
\* upload folder only.  Two uploads can have the same secured file name, and
\* the recognizer tells the two files apart by their text.
UploadNames == {"a.wav", "b.wav"}
UploadArrivals ==
    {[upload |-> u, filename |-> n, speech |-> sp] :
        u \in UploadKinds, n \in UploadNames, sp \in {x \in Speech : x.segments = <<>>}}

NextUploads ==
    \/ \E r \in DOMAIN hpc : Receive(r)
    \/ \E r \in DOMAIN hpc : CheckSize(r)
    \/ \E r \in DOMAIN hpc : Recognize(r)
    \/ \E r \in DOMAIN hpc : StartDiarization(r)
    \/ \E r \in DOMAIN hpc : Cleanup(r)
    \/ \E r \in DOMAIN hpc : Commit(r)

InitUploads ==
    /\ AlignIdle
    /\ DiarIdle
    /\ HttpInit({1, 2}, UploadArrivals)
    /\ ~DIARIZATION_AVAILABLE
    /\ AuthIdle
SpecUploads == InitUploads /\ [][NextUploads]_vars

\* ------------------------------------------------------ password reset --
Emails == {"a@example.com", "b@example.com"}

\* A password, as far as validate_password and the handlers look at it: its
\* length and the kinds of character it has.  The first is the empty string.
PasswordInputs ==
    {[len |-> 0, upper |-> FALSE, lower |-> FALSE, digit |-> FALSE],
     [len |-> 7, upper |-> TRUE, lower |-> TRUE, digit |-> TRUE],
     [len |-> 8, upper |-> TRUE, lower |-> TRUE, digit |-> FALSE],
     [len |-> 8, upper |-> TRUE, lower |-> TRUE, digit |-> TRUE],
     [len |-> 9, upper |-> TRUE, lower |-> TRUE, digit |-> TRUE]}
RegisteredPasswords == {[len |-> 8, upper |-> TRUE, lower |-> TRUE, digit |-> TRUE]}

\* validate_password(password)[0]
ValidatePassword(password) ==
    /\ password.len >= MinPasswordLen
    /\ password.upper
    /\ password.lower
    /\ password.digit

\* User.set_password: the n-th hash made in the run.
SetPassword(user, password, n) ==
    [user EXCEPT !.password_hash = PasswordHash(password, n)]

\* User.generate_reset_token: secrets.token_urlsafe(32) gives a token never
\* given before (256 random bits); tokens are numbered as they are made.
GenerateResetToken(user) ==
    [user EXCEPT !.reset_token = tokens_issued + 1,
                 !.reset_token_expiry = now + TokenHours]

\* Slip: the expiry is not looked at.
VerifyResetToken_NoExpiry(user, token) == user.reset_token = token

\* User.verify_reset_token
VerifyResetToken(user, token) ==
    IF user.reset_token # token THEN FALSE
    ELSE IF user.reset_token_expiry = None \/ now > user.reset_token_expiry THEN FALSE
    ELSE TRUE

\* User.clear_reset_token
ClearResetToken(user) ==
    [user EXCEPT !.reset_token = None, !.reset_token_expiry = None]

\* The request just handled.
Handled(route, token, outcome) ==
    /\ last.seq < MaxRequests
    /\ last' = [seq |-> last.seq + 1, route |-> route, token |-> token, outcome |-> outcome]

\* forgot_password, auth.py:189-266: for a known email a token is generated
\* and committed; the answer is the same for an unknown one.
ForgotPassword ==
    /\ \E authenticated \in BOOLEAN, method \in {"GET", "POST"},
          email \in Emails \cup {"", "nobody@example.com"}, commit_ok \in BOOLEAN :
        IF authenticated
        THEN Handled("forgot_password", None, "authenticated")
             /\ UNCHANGED <<users, tokens_issued>>
        ELSE IF method = "GET"
        THEN Handled("forgot_password", None, "form")
             /\ UNCHANGED <<users, tokens_issued>>
        ELSE IF email = ""
        THEN Handled("forgot_password", None, "missing_email")
             /\ UNCHANGED <<users, tokens_issued>>
        ELSE IF email \in DOMAIN users
        THEN /\ tokens_issued < MaxTokens
             /\ tokens_issued' = tokens_issued + 1
             /\ IF commit_ok
                THEN /\ users' = Set(users, email, GenerateResetToken(users[email]))
                     /\ Handled("forgot_password", None, "sent")
                ELSE /\ UNCHANGED users
                     /\ Handled("forgot_password", None, "commit_failed")
        ELSE Handled("forgot_password", None, "sent")
             /\ UNCHANGED <<users, tokens_issued>>
    /\ UNCHANGED <<alignVars, diarVars, httpVars, now, used>>

\* reset_password(token), auth.py:269-334.
ResetPassword ==
    /\ \E token \in 1..MaxTokens, authenticated \in BOOLEAN, method \in {"GET", "POST"},
          password \in PasswordInputs, confirm_password \in PasswordInputs,
          commit_ok \in BOOLEAN :
        LET found == {e \in DOMAIN users : users[e].reset_token = token}
            empty == [len |-> 0, upper |-> FALSE, lower |-> FALSE, digit |-> FALSE]
        IN  IF authenticated
            THEN Handled("reset_password", token, "authenticated") /\ UNCHANGED <<users, used>>
            ELSE IF found = {} \/ \E e \in found : ~VerifyResetToken(users[e], token)
            THEN Handled("reset_password", token, "invalid_token") /\ UNCHANGED <<users, used>>
            ELSE IF method = "GET"
            THEN Handled("reset_password", token, "form") /\ UNCHANGED <<users, used>>
            ELSE IF password = empty \/ confirm_password = empty
            THEN Handled("reset_password", token, "missing_fields") /\ UNCHANGED <<users, used>>
            ELSE IF password # confirm_password
            THEN Handled("reset_password", token, "mismatch") /\ UNCHANGED <<users, used>>
            ELSE IF ~ValidatePassword(password)
            THEN Handled("reset_password", token, "weak_password") /\ UNCHANGED <<users, used>>
            ELSE IF ~commit_ok
            THEN Handled("reset_password", token, "commit_failed") /\ UNCHANGED <<users, used>>
            ELSE \E e \in found :
                    /\ users' = Set(users, e,
                           ClearResetToken(
                               SetPassword(users[e], password, Cardinality(used) + 1)))
                    /\ used' = used \cup {token}
                    /\ Handled("reset_password", token, "success")
    /\ UNCHANGED <<alignVars, diarVars, httpVars, now, tokens_issued>>

\* Time passes.
Tick ==
    /\ now + TickHours <= MaxClock
    /\ now' = now + TickHours
    /\ UNCHANGED <<alignVars, diarVars, httpVars, users, tokens_issued, used, last>>

NextAuth == ForgotPassword \/ ResetPassword \/ Tick

InitAuth == AlignIdle /\ DiarIdle /\ HttpIdle /\ AuthInit(Emails, RegisteredPasswords)
SpecAuth == InitAuth /\ [][NextAuth]_vars

\* ------------------------------------------------------ claims: helpers --
\* merge_with_transcription has returned.
MergeReturned == pc \in {"merged", "summarized"}

\* Ends included / ends excluded containment of a time in a speaker segment.
Contains(t, seg) == seg["start"] <= t /\ t <= seg["end"]
StrictlyInside(t, seg) == seg["start"] < t /\ t < seg["end"]
Distance(t, seg) == Min(Abs(t - seg["start"]), Abs(t - seg["end"]))

\* The midpoint of the i-th transcript segment, in half seconds.
Mid(i) == (whisper_segments[i]["start"] + whisper_segments[i]["end"]) \div 2

DiarIdx == DOMAIN diarization_segments
WhisperIdx == DOMAIN whisper_segments
Containing(t) == {j \in DiarIdx : Contains(t, diarization_segments[j])}
Nearest(t) ==
    {j \in DiarIdx :
        \A k \in DiarIdx :
            Distance(t, diarization_segments[j]) <= Distance(t, diarization_segments[k])}

SortedByStart(segs) ==
    \A j, k \in DOMAIN segs : j < k => segs[j]["start"] <= segs[k]["start"]

\* ------------------------------------------------------------------ C1 --
\* C1: merge_with_transcription called with an empty speaker list returns
\* the transcript segments unchanged in count, order and content, and no
\* returned segment has a speaker field.
C1_EmptySpeakersUnchanged ==
    (MergeReturned /\ diarization_segments = <<>>) =>
        /\ Len(merged_segments) = Len(whisper_segments)
        /\ \A i \in WhisperIdx : merged_segments[i] = whisper_segments[i]
        /\ \A i \in DOMAIN merged_segments : "speaker" \notin DOMAIN merged_segments[i]

C1_Witness ==
    /\ pc = "merged"
    /\ diarization_segments = <<>>
    /\ Len(whisper_segments) = 2
    /\ whisper_segments[1] # whisper_segments[2]

\* ------------------------------------------------------------------ C2 --
\* C2: with a non-empty speaker list the output has the length of the
\* transcript list, output[i] agrees with transcript[i] on every field other
\* than speaker, and speaker is the only field added.
C2_OrderCountPreserved ==
    (MergeReturned /\ diarization_segments # <<>>) =>
        /\ Len(merged_segments) = Len(whisper_segments)
        /\ \A i \in WhisperIdx :
            /\ DOMAIN merged_segments[i] = DOMAIN whisper_segments[i] \cup {"speaker"}
            /\ \A k \in DOMAIN whisper_segments[i] \ {"speaker"} :
                   merged_segments[i][k] = whisper_segments[i][k]

C2_Witness ==
    /\ pc = "merged"
    /\ diarization_segments # <<>>
    /\ Len(whisper_segments) = 2
    /\ whisper_segments[1]["start"] > whisper_segments[2]["start"]
    /\ whisper_segments[1]["text"] # whisper_segments[2]["text"]

\* ------------------------------------------------------------------ C3 --
\* C3 as stated: a transcript segment whose midpoint lies strictly inside
\* exactly one speaker segment gets that segment's label.
C3_StrictlyInsideOne_Original ==
    MergeReturned =>
        \A i \in WhisperIdx : \A j \in DiarIdx :
            (/\ StrictlyInside(Mid(i), diarization_segments[j])
             /\ \A k \in DiarIdx \ {j} : ~StrictlyInside(Mid(i), diarization_segments[k]))
            => merged_segments[i]["speaker"] = diarization_segments[j]["speaker"]

\* C3 as amended: a transcript segment whose midpoint lies strictly inside
\* exactly one speaker segment, and is neither the start nor the end of a
\* speaker segment listed before that one, gets that segment's label.
C3_StrictlyInsideOne ==
    MergeReturned =>
        \A i \in WhisperIdx : \A j \in DiarIdx :
            (/\ StrictlyInside(Mid(i), diarization_segments[j])
             /\ \A k \in DiarIdx \ {j} : ~StrictlyInside(Mid(i), diarization_segments[k])
             /\ \A k \in DiarIdx :
                    k < j => /\ Mid(i) # diarization_segments[k]["start"]
                             /\ Mid(i) # diarization_segments[k]["end"])
            => merged_segments[i]["speaker"] = diarization_segments[j]["speaker"]

\* Scenario A at half scale: speakers [{A,0,1},{B,1,2}], transcript {0,1},
\* midpoint 0.5, strictly inside A alone.
C3_Witness ==
    /\ pc = "merged"
    /\ Len(diarization_segments) = 2
    /\ Len(whisper_segments) = 1
    /\ diarization_segments[1]["speaker"] # diarization_segments[2]["speaker"]
    /\ StrictlyInside(Mid(1), diarization_segments[1])
    /\ Mid(1) < diarization_segments[2]["start"]
    /\ merged_segments[1]["speaker"] = diarization_segments[1]["speaker"]

\* ------------------------------------------------------------------ C4 --
\* C4: for a speaker list sorted ascending by start, a transcript segment
\* whose midpoint lies inside two or more speaker segments gets the label of
\* the containing segment with the earliest start, the first in the list
\* among those of equal start.
C4_OverlapEarliestStart ==
    (MergeReturned /\ SortedByStart(diarization_segments)) =>
        \A i \in WhisperIdx :
            Cardinality(Containing(Mid(i))) >= 2 =>
                \E j \in Containing(Mid(i)) :
                    /\ \A k \in Containing(Mid(i)) :
                        \/ diarization_segments[j]["start"] < diarization_segments[k]["start"]
                        \/ /\ diarization_segments[j]["start"] = diarization_segments[k]["start"]
                           /\ j <= k
                    /\ merged_segments[i]["speaker"] = diarization_segments[j]["speaker"]

C4_Witness ==
    /\ pc = "merged"
    /\ SortedByStart(diarization_segments)
    /\ Len(whisper_segments) = 1
    /\ Cardinality(Containing(Mid(1))) = 2
    /\ diarization_segments[1]["start"] < diarization_segments[2]["start"]
    /\ diarization_segments[1]["speaker"] # diarization_segments[2]["speaker"]
    /\ merged_segments[1]["speaker"] = diarization_segments[1]["speaker"]

\* ------------------------------------------------------------------ C5 --
\* C5: for a non-empty speaker list sorted ascending by start, a transcript
\* segment whose midpoint lies inside no speaker segment gets the label of a
\* segment minimizing min(|mid - start|, |mid - end|), and of the minimizing
\* segments one with the earliest start.
C5_NearestNeighbour ==
    (MergeReturned /\ diarization_segments # <<>> /\ SortedByStart(diarization_segments)) =>
        \A i \in WhisperIdx :
            Containing(Mid(i)) = {} =>
                \E j \in Nearest(Mid(i)) :
                    /\ \A k \in Nearest(Mid(i)) :
                        diarization_segments[j]["start"] <= diarization_segments[k]["start"]
                    /\ merged_segments[i]["speaker"] = diarization_segments[j]["speaker"]

\* A tie: the midpoint is as far from the first segment as from the second,
\* the labels differ, and the earlier one wins.
C5_Witness ==
    /\ pc = "merged"
    /\ Len(diarization_segments) = 2
    /\ SortedByStart(diarization_segments)
    /\ Len(whisper_segments) = 1
    /\ Containing(Mid(1)) = {}
    /\ Nearest(Mid(1)) = {1, 2}
    /\ diarization_segments[1]["start"] < diarization_segments[2]["start"]
    /\ diarization_segments[1]["speaker"] # diarization_segments[2]["speaker"]
    /\ merged_segments[1]["speaker"] = diarization_segments[1]["speaker"]

\* ------------------------------------------------------------------ C6 --
\* C6: with a non-empty speaker list every merged segment carries a speaker
\* label, the label is that of a segment of the supplied list, and the
\* placeholder "UNKNOWN" is never returned.
C6_LabelFromList ==
    (MergeReturned /\ diarization_segments # <<>>) =>
        \A i \in DOMAIN merged_segments :
            /\ "speaker" \in DOMAIN merged_segments[i]
            /\ merged_segments[i]["speaker"] \in
                   {diarization_segments[j]["speaker"] : j \in DiarIdx}
            /\ merged_segments[i]["speaker"] # "UNKNOWN"

\* The nearest-neighbour search ran: no speaker segment contains the midpoint.
C6_Witness ==
    /\ pc = "merged"
    /\ diarization_segments # <<>>
    /\ Len(whisper_segments) = 2
    /\ Containing(Mid(1)) = {}
    /\ Containing(Mid(2)) # {}
    /\ merged_segments[1]["speaker"] \in Labels

\* ------------------------------------------------------------------ C7 --
\* C7 as stated: whatever the order the speaker segments are supplied in, the
\* merged output is that for the list sorted ascending by start.
C7_OrderIndependent_Original ==
    MergeReturned =>
        merged_segments =
            MergeWithTranscription(whisper_segments, SortByStart(diarization_segments))

\* The segments that decide the label of a midpoint: those containing it,
\* or, when none does, those nearest to it.
Candidates(t) == IF Containing(t) # {} THEN Containing(t) ELSE Nearest(t)
OneCandidateLabel(t) ==
    \A j, k \in Candidates(t) :
        diarization_segments[j]["speaker"] = diarization_segments[k]["speaker"]

\* C7 as amended: speaker segments are processed in the order supplied; the
\* merged output is that for the list sorted ascending by start whenever, for
\* every transcript segment, the speaker segments containing its midpoint
\* (when none contains it, the segments nearest to it) carry one label.
C7_OrderIndependent ==
    (MergeReturned /\ \A i \in WhisperIdx : OneCandidateLabel(Mid(i))) =>
        merged_segments =
            MergeWithTranscription(whisper_segments, SortByStart(diarization_segments))

\* An unsorted speaker list with two labels, and a midpoint outside both.
C7_Witness ==
    /\ pc = "merged"
    /\ Len(diarization_segments) = 2
    /\ diarization_segments[1]["start"] > diarization_segments[2]["start"]
    /\ diarization_segments[1]["speaker"] # diarization_segments[2]["speaker"]
    /\ Len(whisper_segments) = 1
    /\ Containing(Mid(1)) = {}
    /\ Nearest(Mid(1)) = {2}
    /\ merged_segments[1]["speaker"] = diarization_segments[2]["speaker"]

\* ------------------------------------------- claims: summary helpers ----
Summarized == pc = "summarized"

RECURSIVE SumFn(_)
SumFn(f) ==
    IF DOMAIN f = {} THEN 0
    ELSE LET x == CHOOSE y \in DOMAIN f : TRUE
         IN  f[x] + SumFn([y \in DOMAIN f \ {x} |-> f[y]])

SegIdx == DOMAIN segments
\* The segments of the input that belong to bucket k.
AssignedTo(k) ==
    {i \in SegIdx :
        IF "speaker" \in DOMAIN segments[i] THEN segments[i]["speaker"] = k
        ELSE k = "UNKNOWN"}
\* duration when the segment has one, end - start otherwise (nothing when it
\* has neither).
ExpectedTime(seg) ==
    IF "duration" \in DOMAIN seg THEN seg["duration"]
    ELSE IF {"start", "end"} \subseteq DOMAIN seg THEN seg["end"] - seg["start"]
    ELSE 0
\* The number of whitespace-separated tokens: the places where a run of
\* non-whitespace characters ends.
Tokens(text) ==
    Cardinality({i \in DOMAIN text :
        /\ text[i] \notin Whitespace
        /\ (i = Len(text) \/ text[i + 1] \in Whitespace)})
ExpectedWords(seg) == IF "text" \in DOMAIN seg THEN Tokens(seg["text"]) ELSE 0

\* ------------------------------------------------------------------ C8 --
\* C8: the segment_count of all buckets of get_speaker_summary add up to the
\* number of input segments.
C8_SegmentCountTotal ==
    Summarized =>
        SumFn([k \in DOMAIN speaker_stats |-> speaker_stats[k].segment_count])
            = Len(segments)

\* Two buckets, one of them with two segments, one segment without text.
C8_Witness ==
    /\ Summarized
    /\ Len(segments) = 2
    /\ Cardinality(DOMAIN speaker_stats) = 2
    /\ \E i \in SegIdx : "text" \notin DOMAIN segments[i]

C10_WordCount ==
    Summarized =>
        \A k \in DOMAIN speaker_stats :
            /\ speaker_stats[k].word_count
                   = SumFn([i \in AssignedTo(k) |-> ExpectedWords(segments[i])])
            /\ speaker_stats[k].segment_count = Cardinality(AssignedTo(k))

\* One bucket of two segments: a two-word text, and a text that is absent.
C10_Witness ==
    /\ Summarized
    /\ Len(segments) = 2
    /\ Cardinality(DOMAIN speaker_stats) = 1
    /\ \E i, j \in SegIdx :
        /\ "text" \in DOMAIN segments[i]
        /\ segments[i]["text"] = <<"a", " ", "a">>
        /\ "text" \notin DOMAIN segments[j]
    /\ \A k \in DOMAIN speaker_stats :
        speaker_stats[k].word_count = 2 /\ speaker_stats[k].segment_count = 2

\* ----------------------------------------------------------------- C11 --
\* The input segments without a speaker key, and those labelled k.
Unlabeled == {i \in SegIdx : "speaker" \notin DOMAIN segments[i]}
LabelledAs(k) ==
    {i \in SegIdx : "speaker" \in DOMAIN segments[i] /\ segments[i]["speaker"] = k}

\* C11: get_speaker_summary drops no segment that lacks a speaker label: all
\* of them are accumulated in the bucket "UNKNOWN" (their count, their time
\* and their words), and every other bucket holds exactly the segments that
\* carry its label.
C11_UnknownBucket ==
    Summarized =>
        /\ Unlabeled # {} =>
            /\ "UNKNOWN" \in DOMAIN speaker_stats
            /\ speaker_stats["UNKNOWN"].segment_count
                   = Cardinality(Unlabeled \cup LabelledAs("UNKNOWN"))
            /\ speaker_stats["UNKNOWN"].total_time
                   = SumFn([i \in Unlabeled \cup LabelledAs("UNKNOWN") |->
                               ExpectedTime(segments[i])])
            /\ speaker_stats["UNKNOWN"].word_count
                   = SumFn([i \in Unlabeled \cup LabelledAs("UNKNOWN") |->
                               ExpectedWords(segments[i])])
        /\ \A k \in DOMAIN speaker_stats \ {"UNKNOWN"} :
            /\ LabelledAs(k) # {}
            /\ speaker_stats[k].segment_count = Cardinality(LabelledAs(k))

\* A labelled segment and an unlabelled one that has a duration and a word.
C11_Witness ==
    /\ Summarized
    /\ Len(segments) = 2
    /\ Cardinality(Unlabeled) = 1
    /\ Cardinality(LabelledAs("SPEAKER_00")) = 1
    /\ DOMAIN speaker_stats = {"UNKNOWN", "SPEAKER_00"}
    /\ speaker_stats["UNKNOWN"].segment_count = 1
    /\ speaker_stats["UNKNOWN"].total_time > 0

\* ----------------------------------------------------------------- C19 --
\* The first speaker segment, in list order, that contains t with both ends
\* included.
FirstInclusive(t, j) ==
    /\ Contains(t, diarization_segments[j])
    /\ \A k \in DiarIdx : k < j => ~Contains(t, diarization_segments[k])
OnBoundary(t, seg) == t = seg["start"] \/ t = seg["end"]

\* C19: containment includes both ends: a transcript segment whose midpoint
\* is the start or the end of a speaker segment is contained in it, and gets
\* the label of the first segment in list order with start <= mid <= end,
\* also when a later segment contains the midpoint strictly.
C19_InclusiveContainment ==
    MergeReturned =>
        \A i \in WhisperIdx : \A j \in DiarIdx :
            (OnBoundary(Mid(i), diarization_segments[j]) /\ FirstInclusive(Mid(i), j))
                => merged_segments[i]["speaker"] = diarization_segments[j]["speaker"]

\* The midpoint is the end of the first speaker segment and strictly inside
\* the second, which has another label; the first one's label is given.
C19_Witness ==
    /\ pc = "merged"
    /\ Len(whisper_segments) = 1
    /\ Len(diarization_segments) = 2
    /\ Mid(1) = diarization_segments[1]["end"]
    /\ diarization_segments[1]["start"] < Mid(1)
    /\ StrictlyInside(Mid(1), diarization_segments[2])
    /\ diarization_segments[1]["speaker"] # diarization_segments[2]["speaker"]
    /\ merged_segments[1]["speaker"] = diarization_segments[1]["speaker"]

\* ----------------------------------------------------------------- C12 --
\* The orders a list can be put in.
Perms(n) == {p \in [1..n -> 1..n] : \A i, j \in 1..n : p[i] = p[j] => i = j}
Permute(segs, p) == [i \in 1..Len(segs) |-> segs[p[i]]]
Reorderings == {Permute(segments, p) : p \in Perms(Len(segments))}

\* The exact (unrounded) sum of the durations of the segments in T.
RECURSIVE ExactSum(_)
ExactSum(T) ==
    IF T = {} THEN {}
    ELSE LET i == CHOOSE x \in T : TRUE
         IN  BitAdd(segments[i]["duration"], ExactSum(T \ {i}))
\* Every sum of durations of bucket k is a float, so no addition rounds.
SumsExact(k) == \A T \in SUBSET AssignedTo(k) : RoundToFloat(ExactSum(T)) = ExactSum(T)

\* C12 as stated: the summary of every reordering of the list has the same
\* speakers with identical total_time, segment_count and word_count.
C12_OrderIndependent_Original ==
    Summarized => \A other \in Reorderings : GetSpeakerSummaryFloat(other) = speaker_stats

\* C12 as amended: the summary of every reordering of the list has the same
\* speakers with identical segment_count and word_count; total_time is
\* identical for a speaker with at most two segments or whose durations add
\* up without rounding, and is otherwise the float sum in list order.
C12_OrderIndependent ==
    Summarized =>
        \A other \in Reorderings :
            LET stats == GetSpeakerSummaryFloat(other)
            IN  /\ DOMAIN stats = DOMAIN speaker_stats
                /\ \A k \in DOMAIN speaker_stats :
                    /\ stats[k].segment_count = speaker_stats[k].segment_count
                    /\ stats[k].word_count = speaker_stats[k].word_count
                    /\ (Cardinality(AssignedTo(k)) <= 2 \/ SumsExact(k))
                           => stats[k].total_time = speaker_stats[k].total_time

\* Three segments of one speaker, of 0.1, 0.2 and 0.3 seconds in this order:
\* the total is the float above 0.6, while 0.3 + 0.2 + 0.1 gives 0.6.
C12_Witness ==
    /\ Summarized
    /\ Len(segments) = 3
    /\ segments[1]["duration"] = FTenth
    /\ segments[2]["duration"] = FFifth
    /\ segments[3]["duration"] = FThreeTenths
    /\ "text" \in DOMAIN segments[1]
    /\ "text" \notin DOMAIN segments[3]
    /\ DOMAIN speaker_stats = {"UNKNOWN"}
    /\ speaker_stats["UNKNOWN"].segment_count = 3
    /\ speaker_stats["UNKNOWN"].total_time
           # GetSpeakerSummaryFloat(<<segments[3], segments[2], segments[1]>>)["UNKNOWN"].total_time

\* ----------------------------------------------------------------- C13 --
Callers == DOMAIN tpc
\* diarize has returned to caller t, which has not called again.
Returned(t) == tpc[t] = "returned"

\* C13: every list diarize returns is sorted ascending by start, whatever the
\* order of the pipeline's tracks, and every segment of it has
\* duration = end - start; without a failure it has one segment per track.
C13_SortedWithDuration ==
    \A t \in Callers :
        Returned(t) =>
            /\ SortedByStart(result[t])
            /\ \A i \in DOMAIN result[t] :
                result[t][i]["duration"] = result[t][i]["end"] - result[t][i]["start"]
            /\ failure[t] = "" => Len(result[t]) = Len(audio[t])

\* The pipeline yields two tracks, the later one first; diarize returns them
\* the earlier one first.
C13_Witness ==
    /\ Returned(1)
    /\ failure[1] = ""
    /\ Len(audio[1]) = 2
    /\ audio[1][1]["start"] > audio[1][2]["start"]
    /\ Len(result[1]) = 2
    /\ result[1][1]["start"] = audio[1][2]["start"]
    /\ result[1][2]["start"] = audio[1][1]["start"]
    /\ result[1][2]["duration"] > 0

\* ----------------------------------------------------------------- C14 --
\* C14: no failure reaches the caller of diarize: when from_pretrained raises
\* or returns None, when to() raises, when the pipeline or the conversion of
\* its tracks raises, diarize returns the empty list.
C14_FailureGivesEmptyList ==
    \A t \in Callers :
        /\ tpc[t] # "raised"
        /\ (Returned(t) /\ failure[t] # "") => result[t] = <<>>

\* A second call, with the pipeline loaded, on an audio file that has
\* tracks: the pipeline raises and the caller gets the empty list.
C14_Witness ==
    /\ Returned(1)
    /\ calls_left[1] = 0
    /\ failure[1] = "pipeline"
    /\ audio[1] # <<>>
    /\ result[1] = <<>>
    /\ loads = 1

\* ----------------------------------------------------------------- C17 --
\* C17: with one caller making its calls one after the other, one
\* SpeakerDiarizer is created and reused, from_pretrained returns a pipeline
\* once at most, and neither _diarizer nor self.pipeline, once set, is ever
\* changed.
C17_LoadedOnce ==
    /\ [](/\ Len(self_pipeline) <= 1
          /\ loads <= 1
          /\ \A t \in Callers : diarizer[t] \in {None, 1})
    /\ [][/\ _diarizer # None => _diarizer' = _diarizer
          /\ \A d \in DOMAIN self_pipeline :
                self_pipeline[d] # None => self_pipeline'[d] = self_pipeline[d]]_vars

\* The second call finds the diarizer and its pipeline set, and runs it.
C17_Witness ==
    /\ Returned(1)
    /\ calls_left[1] = 0
    /\ observed[1] = [diarizer |-> "set", pipeline |-> "set"]
    /\ failure[1] = ""
    /\ loads = 1
    /\ pipeline[1] = self_pipeline[_diarizer]

\* ----------------------------------------------------------------- C18 --
SawUnset(what) == {t \in Callers : observed[t][what] = "unset"}

\* C18: the tests "is None" and the assignments that follow them are apart:
\* a caller constructs or loads exactly when its own test saw None, whatever
\* another caller has stored since, so as many constructions and loads run as
\* there are callers that saw None (two callers: up to two loads).
C18_UnguardedLazyInit ==
    /\ \A t \in Callers :
        /\ tpc[t] = "construct" => observed[t]["diarizer"] = "unset"
        /\ tpc[t] = "from_pretrained" => observed[t]["pipeline"] = "unset"
    /\ Len(self_pipeline) <= Cardinality(SawUnset("diarizer"))
    /\ loads <= Cardinality(SawUnset("pipeline"))

\* Both callers saw the pipeline of the same diarizer unset, and both loads
\* have run: the second has replaced the pipeline the first one stored.
C18_Witness ==
    /\ SawUnset("pipeline") = {1, 2}
    /\ diarizer[1] = diarizer[2]
    /\ loads = 2
    /\ self_pipeline[diarizer[1]] = 2
    /\ \E t \in Callers : pipeline[t] = 1

\* ----------------------------------------------------------------- C16 --
\* C16: merge_with_transcription changes neither of its inputs: after the
\* call the transcript list holds the same dicts in the same order, each with
\* the keys and values it had (none has gained a speaker), the speaker list
\* is as it was, and the labels are in dicts made by the call.
C16_InputsUnchanged ==
    MergeReturned =>
        /\ Len(merged_refs) = Len(whisper_segments)
        /\ \A i \in WhisperIdx :
            /\ heap[InputRefs[i]] = whisper_segments[i]
            /\ heap[merged_refs[i]] = merged_segments[i]
            /\ diarization_segments # <<>> =>
                /\ merged_refs[i] \notin {InputRefs[j] : j \in WhisperIdx}
                /\ "speaker" \in DOMAIN heap[merged_refs[i]]
                /\ "speaker" \notin DOMAIN heap[InputRefs[i]]

\* Two transcript segments labelled: four dicts exist, the two of the caller
\* without a speaker, the two returned with one.
C16_Witness ==
    /\ pc = "merged"
    /\ Len(whisper_segments) = 2
    /\ diarization_segments # <<>>
    /\ Len(heap) = 4
    /\ merged_refs = <<3, 4>>
    /\ \A i \in 1..2 : "speaker" \notin DOMAIN heap[i] /\ "speaker" \in DOMAIN heap[i + 2]

\* ----------------------------------------------------------------- C15 --
Requests == DOMAIN hpc
\* The handler has answered request r, and the recognizer had succeeded.
AnsweredAfterRecognition(r) == hpc[r] = "done" /\ frame[r].recognized
\* seg is the transcript segment whisper_seg, with or without a label.
SameButLabel(seg, whisper_seg) ==
    /\ DOMAIN seg \ {"speaker"} = DOMAIN whisper_seg
    /\ \A k \in DOMAIN whisper_seg : seg[k] = whisper_seg[k]

\* C15: once the recognizer has succeeded, nothing that goes wrong in the
\* diarization stage gives an error response: an error 500 then comes from
\* the removal of the temp file or from the commit, and without such a fault
\* the response is the success response with the transcript's text and its
\* segments, labelled or not.
C15_DiarizationFailureTolerated ==
    \A r \in Requests :
        AnsweredAfterRecognition(r) =>
            /\ response[r].status \in {200, 500}
            /\ response[r].status = 500 <=> fault[r] \in {"remove", "commit"}
            /\ response[r].status = 200 =>
                /\ response[r].text = Strip(request[r].speech.text)
                /\ Len(response[r].segments) = Len(request[r].speech.segments)
                /\ \A i \in DOMAIN response[r].segments :
                    SameButLabel(response[r].segments[i], request[r].speech.segments[i])
                /\ stage_failure[r] \in {"get_diarizer", "empty", "merge_with_transcription"}
                       => /\ response[r].segments = request[r].speech.segments
                          /\ response[r].speakers = NoKeys

\* The pipeline found a speaker, the merge succeeded and get_speaker_summary
\* raised: the response is a success with the text, the labelled segment and
\* no speakers entry.
C15_Witness ==
    /\ hpc[1] = "done"
    /\ stage_failure[1] = "get_speaker_summary"
    /\ response[1].status = 200
    /\ response[1].text = <<"a">>
    /\ Len(response[1].segments) = 1
    /\ "speaker" \in DOMAIN response[1].segments[1]
    /\ response[1].speakers = NoKeys
    /\ Len(history) = 1

\* ----------------------------------------------------------------- C20 --
\* A request to reset_password is handled in this step.
ResetHandled == last'.seq # last.seq /\ last'.route = "reset_password"

\* C20: a step changes a user's password only if it is a reset_password
\* request whose token is that user's stored token, at a time not after the
\* token's expiry, and that step clears the user's token and expiry; the
\* expiry of a token is 24 hours after its generation; and a request that
\* presents a token with which a password was reset is rejected as invalid
\* and changes nothing.
C20_ResetNeedsValidToken ==
    /\ [][\A e \in DOMAIN users :
            users'[e].password_hash # users[e].password_hash =>
                /\ ResetHandled
                /\ last'.outcome = "success"
                /\ users[e].reset_token = last'.token
                /\ users[e].reset_token_expiry # None
                /\ now <= users[e].reset_token_expiry
                /\ users'[e].reset_token = None
                /\ users'[e].reset_token_expiry = None]_vars
    /\ [][\A e \in DOMAIN users :
            (users'[e].reset_token # users[e].reset_token /\ users'[e].reset_token # None)
                => users'[e].reset_token_expiry = now + TokenHours]_vars
    /\ [][(ResetHandled /\ last'.token \in used) =>
            /\ last'.outcome \in {"invalid_token", "authenticated"}
            /\ users' = users]_vars
    /\ [](\A e \in DOMAIN users : users[e].reset_token \notin used)

\* A password was reset with a token, and the same token, presented again
\* without a login, has been rejected.
C20_Witness ==
    /\ last.route = "reset_password"
    /\ last.outcome = "invalid_token"
    /\ last.token \in used
    /\ \E e \in DOMAIN users :
        /\ users[e].password_hash.salt = 1
        /\ users[e].reset_token = None
        /\ users[e].reset_token_expiry = None

\* ----------------------------------------------------------------- C21 --
\* load_model returned None to caller t: the call of diarize ended at
\* from_pretrained or at to().
LoadFailed(t) == Returned(t) /\ failure[t] \in {"from_pretrained", "to"}

\* C21: whenever load_model returns None, the pipeline handle of the diarizer
\* is unset (None), also when from_pretrained returned a pipeline and to()
\* raised; the next call of diarize then loads again.
C21_FailedLoadLeavesUnset ==
    \A t \in Callers : LoadFailed(t) => self_pipeline[diarizer[t]] = None

\* from_pretrained returned a pipeline and to() raised, so that the first
\* call of diarize returned []; the second call found the handle set, did not
\* load, and runs the pipeline that was never moved to the device.
C21_Witness ==
    /\ tpc[1] = "run"
    /\ calls_left[1] = 0
    /\ failure[1] = "to"
    /\ observed[1] = [diarizer |-> "set", pipeline |-> "set"]
    /\ loads = 1
    /\ pipeline[1] = self_pipeline[diarizer[1]]

\* ----------------------------------------------------------------- C22 --
\* Request r has saved its file (line 233) and has not yet removed it (lines
\* 237, 323) nor failed.
Holding(r) ==
    /\ frame[r].temp_path
    /\ hpc[r] \in {"check_size", "recognize", "diarization", "diarizing", "cleanup"}

\* C22: two requests served at once do not meet in the upload folder, also
\* when their files have the same secured name: from its file.save to its
\* own os.remove, the file at the temp_path of a request is there and is the
\* one this request saved.
C22_UploadsDoNotInterfere ==
    \A r \in Requests :
        Holding(r) => Exists(r) /\ uploads[request[r].filename] = r

\* Two uploads of the same name and of different content: request 1 was
\* answered with the text of the file of request 2, which overwrote its own,
\* and request 2 failed at os.remove, its file removed by request 1.
C22_Witness ==
    /\ request[1].filename = request[2].filename
    /\ request[1].upload = "ok"
    /\ request[2].upload = "ok"
    /\ Strip(request[1].speech.text) # Strip(request[2].speech.text)
    /\ response[1].status = 200
    /\ response[1].text = Strip(request[2].speech.text)
    /\ response[2].status = 500
    /\ fault[2] = "remove"
    /\ uploads = NoKeys

====
